---- MODULE Spec2Model ----
(***************************************************************************)
(* A model of the CAMotics project kernel:                                 *)
(*   src/src/camotics/sim/Project.cpp        (Project)                     *)
(*   src/src/camotics/qt/SettingsDialog.cpp  (SettingsDialog)              *)
(*   src/src/camotics/contour/ElementSurface.h (ElementSurface)            *)
(*                                                                         *)
(* Strings of file names are sequences of character codes.  Lengths are    *)
(* integers in units of 1/UnitsPerMM mm.                                   *)
(***************************************************************************)
EXTENDS Integers, Sequences, FiniteSets, TLC

VARIABLES
  \* ---- Project.cpp: percent codec of file names (pure functions) ----
  cStr,        \* the input string of encodeFilename
  cEnc,        \* the result of encodeFilename
  cDec,        \* the result of decodeFilename
  cPc          \* "start" | "encoded" | "done"

codecVars == <<cStr, cEnc, cDec, cPc>>

VARIABLES
  \* ---- Project.cpp: computeResolution (pure function) ----
  rMode,       \* the mode argument
  rBounds,     \* the bounds argument
  rOut,        \* the value returned, NoResult before the call
  rPc          \* "start" | "done"

resVars == <<rMode, rBounds, rOut, rPc>>

VARIABLES
  \* ---- Project.cpp: a Project ----
  project,     \* the members and option values of the Project, a record
  lastOp       \* the operation that ran last: [op, arg, aux]

projectVars == <<project, lastOp>>

VARIABLES
  \* ---- ElementSurface.h: an ElementSurface ----
  surface,     \* the members of the ElementSurface, a record
  sLast        \* the call that ran last: [op, ok, sealed]

surfaceVars == <<surface, sLast>>

VARIABLES
  \* ---- Tool.cpp: a Tool ----
  tool,        \* the members of the Tool, a record
  tLast        \* the call that ran last: [op, arg, out]

toolVars == <<tool, tLast>>

VARIABLES
  \* ---- SettingsDialog.cpp: the resolution widgets of a SettingsDialog ----
  dialog,      \* the members and widget values of the dialog, a record
  dStack,      \* the handlers that are running, innermost first
  dLast        \* the user's last input: [op, arg]

dialogVars == <<dialog, dStack, dLast>>

vars == <<cStr, cEnc, cDec, cPc, rMode, rBounds, rOut, rPc, project, lastOp,
          surface, sLast, tool, tLast, dialog, dStack, dLast>>

----------------------------------------------------------------------------
(* Bounds *)

MaxLen == 3        \* longest file name drawn as an input of the codec
MaxCoordMM == 1    \* corners of the bounds drawn for computeResolution: 0..MaxCoordMM mm
MaxPath == 2       \* longest tool path passed to updateAutomaticWorkpiece
MaxFiles == 2      \* longest file list addFile builds
MaxElements == 3   \* most elements appended to an ElementSurface
MaxToolMM == 2     \* lengths passed to the setters of a Tool: 1..MaxToolMM mm

----------------------------------------------------------------------------
(* Characters, by code                                                     *)

CH_BEL == 7
CH_TAB == 9
CH_LF == 10
CH_VT == 11
CH_CR == 13
CH_SPACE == 32
CH_PERCENT == 37
CH_0 == 48
CH_2 == 50
CH_5 == 53
CH_7 == 55
CH_A == 65
CH_B == 66
CH_D == 68

\* The characters file names are drawn from: the six escaped ones and some
\* ordinary ones (BEL, digits that occur in escapes, a letter).
Alphabet == {CH_TAB, CH_LF, CH_VT, CH_CR, CH_PERCENT, CH_SPACE,
             CH_BEL, CH_2, CH_5, CH_A}

RECURSIVE StringsOfLen(_)
StringsOfLen(n) ==
  IF n = 0 THEN {<<>>}
  ELSE {Append(s, c) : s \in StringsOfLen(n - 1), c \in Alphabet}

Strings == UNION {StringsOfLen(n) : n \in 0..MaxLen}

----------------------------------------------------------------------------
(* Project::encodeFilename                                                 *)

EncodeChar(c) ==
  CASE c = CH_TAB     -> <<CH_PERCENT, CH_0, CH_7>>
    [] c = CH_LF      -> <<CH_PERCENT, CH_0, CH_A>>
    [] c = CH_VT      -> <<CH_PERCENT, CH_0, CH_B>>
    [] c = CH_CR      -> <<CH_PERCENT, CH_0, CH_D>>
    [] c = CH_PERCENT -> <<CH_PERCENT, CH_2, CH_5>>
    [] c = CH_SPACE   -> <<CH_PERCENT, CH_2, CH_0>>
    [] OTHER          -> <<c>>

RECURSIVE encodeFilename(_)
encodeFilename(s) ==
  IF s = <<>> THEN <<>>
  ELSE EncodeChar(Head(s)) \o encodeFilename(Tail(s))

----------------------------------------------------------------------------
(* Project::decodeFilename                                                 *)

\* The value of one hexadecimal digit, -1 when the character is none.
HexDigit(c) ==
  IF c \in 48..57 THEN c - 48
  ELSE IF c \in 65..70 THEN c - 55
  ELSE IF c \in 97..102 THEN c - 87
  ELSE -1

\* String::parseU8("0x" + t): t is the at most two characters after a '%'.
\* -1 stands for the exception thrown on an unparsable number.
parseU8(t) ==
  IF Len(t) = 0 \/ \E k \in 1..Len(t) : HexDigit(t[k]) = -1 THEN -1
  ELSE IF Len(t) = 1 THEN HexDigit(t[1])
  ELSE 16 * HexDigit(t[1]) + HexDigit(t[2])

\* filename.substr(pos, 2) with a 0-based pos <= size
Substr2(s, pos) == SubSeq(s, pos + 1, IF pos + 2 <= Len(s) THEN pos + 2 ELSE Len(s))

\* i < filename.size() - 2, computed in size_t: for size < 2 the right side
\* wraps around to 2^64 - 2 or 2^64 - 1, above every unsigned i.
BeforeLastTwo(i, size) == IF size < 2 THEN TRUE ELSE i < size - 2

\* the result standing for the exception parseU8 throws: no string holds -1
DecodeError == <<0 - 1>>

\* The loop of decodeFilename from the 0-based index i with the result so
\* far; DecodeError when parseU8 throws.
RECURSIVE DecodeFrom(_, _, _)
DecodeFrom(s, i, result) ==
  IF i >= Len(s) THEN result
  ELSE IF s[i + 1] = CH_PERCENT /\ BeforeLastTwo(i, Len(s))
       THEN LET v == parseU8(Substr2(s, i + 1))
            IN IF v = -1 THEN DecodeError
               ELSE DecodeFrom(s, i + 3, Append(result, v))
       ELSE DecodeFrom(s, i + 1, Append(result, s[i + 1]))

decodeFilename(s) == DecodeFrom(s, 0, <<>>)

----------------------------------------------------------------------------
(* Geometry: cb::Vector3D and cb::Rectangle3D as Project.cpp uses them     *)

UnitsPerMM == 20   \* one length unit of the model is 1/20 mm

\* std::numeric_limits<double>::max(), above every coordinate of the model
DBL_MAX == 1000000

\* cb::Vector3D(): the zero vector
Vector3D0 == <<0, 0, 0>>

\* cb::Rectangle3D(): the empty rectangle, rmin = DBL_MAX, rmax = -DBL_MAX
Rectangle3D0 ==
  [rmin |-> <<DBL_MAX, DBL_MAX, DBL_MAX>>,
   rmax |-> <<0 - DBL_MAX, 0 - DBL_MAX, 0 - DBL_MAX>>]

Min2(a, b) == IF a < b THEN a ELSE b
Max2(a, b) == IF a < b THEN b ELSE a

\* cb::Rectangle3D(p1, p2): the corners, swapped per axis where p2 < p1
Rectangle3D(p1, p2) ==
  [rmin |-> [i \in 1..3 |-> Min2(p1[i], p2[i])],
   rmax |-> [i \in 1..3 |-> Max2(p1[i], p2[i])]]

\* Rectangle3D::add(point)
AddPoint(r, p) ==
  [rmin |-> [i \in 1..3 |-> Min2(r.rmin[i], p[i])],
   rmax |-> [i \in 1..3 |-> Max2(r.rmax[i], p[i])]]

\* Rectangle3D::add(rectangle)
AddRect(r, b) ==
  [rmin |-> [i \in 1..3 |-> Min2(r.rmin[i], b.rmin[i])],
   rmax |-> [i \in 1..3 |-> Max2(r.rmax[i], b.rmax[i])]]

\* Rectangle3D::getDimensions(), getHeight(), getVolume()
getDimensions(r) == [i \in 1..3 |-> r.rmax[i] - r.rmin[i]]
getHeight(r) == r.rmax[3] - r.rmin[3]
getVolume(r) ==
  (r.rmax[1] - r.rmin[1]) * (r.rmax[2] - r.rmin[2]) * (r.rmax[3] - r.rmin[3])

----------------------------------------------------------------------------
(* Resolutions.  A resolution r (a double, in mm) is represented by the    *)
(* fraction r^3 * CubeScale in lowest terms; equal doubles have equal      *)
(* representations and the cube root is never taken.                       *)

CubeScale == 400000000   \* UnitsPerMM^3 * 50000

RECURSIVE GCD(_, _)
GCD(a, b) == IF b = 0 THEN a ELSE GCD(b, a % b)

Fraction(n, d) ==
  LET g == GCD(n, d) IN [num |-> n \div g, den |-> d \div g]

\* the double p/q, for q^3 dividing CubeScale
Literal(p, q) == Fraction(p * p * p * (CubeScale \div (q * q * q)), 1)

One == Literal(1, 1)

ResolutionModes ==
  {"RESOLUTION_LOW", "RESOLUTION_MEDIUM", "RESOLUTION_HIGH",
   "RESOLUTION_VERY_HIGH", "RESOLUTION_MANUAL"}

\* the switch of computeResolution, in units of 50000
Divisor(mode) ==
  CASE mode = "RESOLUTION_LOW"       -> 2     \* 100000
    [] mode = "RESOLUTION_HIGH"      -> 100   \* 5000000
    [] mode = "RESOLUTION_VERY_HIGH" -> 200   \* 10000000
    [] OTHER                         -> 5     \* 250000, medium

\* Project::computeResolution: pow(volume / divisor, 1 / 3) with the volume
\* in mm^3 is the fraction volume[units^3] / (divisor / 50000) of CubeScale.
computeResolution(mode, bounds) ==
  IF mode = "RESOLUTION_MANUAL" \/ bounds = Rectangle3D0 THEN One
  ELSE Fraction(getVolume(bounds), Divisor(mode))

----------------------------------------------------------------------------
(* File system paths, as strings of character codes                        *)

CH_SLASH == 47
CH_P == 112

\* SystemUtilities::getcwd(); the project files of the model live there too,
\* so Project::getDirectory() is Cwd whatever the project file is called.
Cwd == <<CH_SLASH, CH_P>>

isAbsolute(path) == path # <<>> /\ path[1] = CH_SLASH

\* SystemUtilities::absolute(base, path) and absolute(path)
absoluteIn(base, path) ==
  IF isAbsolute(path) THEN path ELSE base \o <<CH_SLASH>> \o path
absolute(path) == absoluteIn(Cwd, path)

getDirectory(P) == Cwd

\* NCFile::getRelativePath(): the path below the project directory
getRelativePath(abs) ==
  LET n == Len(Cwd) + 1
  IN IF Len(abs) > n /\ SubSeq(abs, 1, n) = Cwd \o <<CH_SLASH>>
     THEN SubSeq(abs, n + 1, Len(abs))
     ELSE abs

----------------------------------------------------------------------------
(* Project: the state is a record P of the members and option values.      *)
(*   automaticWorkpiece is the option "automatic-workpiece": "none" while  *)
(*   it has no value, else "true" or "false".                              *)
(*   workpieceMin/workpieceMax are the option strings: <<>> while empty,   *)
(*   else the vector they print.                                           *)
(*   files is the list of the absolute paths of the NCFile objects.        *)
(*   ncFiles is the value of the option "nc-files".                        *)

MANUAL == "RESOLUTION_MANUAL"

markDirty(P) == [P EXCEPT !.dirty = TRUE]
markClean(P) == [P EXCEPT !.dirty = FALSE]

setFilename(P, f) ==
  IF f = "" \/ P.filename = f THEN P
  ELSE markDirty([P EXCEPT !.filename = f])

getUnits(P) == P.units

setUnits(P, u) ==
  IF u = getUnits(P) THEN P
  ELSE markDirty([P EXCEPT !.units = u])

getResolutionMode(P) == P.resolutionMode
getResolution(P) == P.resolution
getWorkpieceMargin(P) == P.workpieceMargin

getWorkpieceBounds(P) ==
  LET wpMin == IF P.workpieceMin = <<>> THEN Vector3D0 ELSE P.workpieceMin
      wpMax == IF P.workpieceMax = <<>> THEN Vector3D0 ELSE P.workpieceMax
  IN Rectangle3D(wpMin, wpMax)

\* setResolution marking the project dirty in every mode
setResolution_AlwaysDirty(P, x) ==
  IF x = getResolution(P) THEN P
  ELSE markDirty([P EXCEPT !.resolution = x])

setResolution(P, x) ==
  IF x = getResolution(P) THEN P
  ELSE LET Q == [P EXCEPT !.resolution = x]
       IN IF getResolutionMode(Q) = MANUAL THEN markDirty(Q) ELSE Q

updateResolution(P) ==
  LET mode == getResolutionMode(P)
  IN IF mode # MANUAL
     THEN setResolution(P, computeResolution(mode, getWorkpieceBounds(P)))
     ELSE P

setResolutionMode(P, x) ==
  IF x = getResolutionMode(P) THEN P
  ELSE updateResolution(markDirty([P EXCEPT !.resolutionMode = x]))

getAutomaticWorkpiece(P) ==
  \/ (P.automaticWorkpiece # "none" /\ P.automaticWorkpiece = "true")
  \/ (P.workpieceMin = <<>> /\ P.workpieceMax = <<>>)

BoolText(b) == IF b THEN "true" ELSE "false"

setAutomaticWorkpiece(P, x) ==
  LET Q == IF getAutomaticWorkpiece(P) # x THEN markDirty(P) ELSE P
  IN [Q EXCEPT !.automaticWorkpiece = BoolText(x)]

setWorkpieceMargin(P, x) ==
  IF getWorkpieceMargin(P) = x THEN P
  ELSE markDirty([P EXCEPT !.workpieceMargin = x])

setWorkpieceBounds(P, bounds) ==
  LET Q1 == [P EXCEPT !.workpieceMin = bounds.rmin,
                      !.workpieceMax = bounds.rmax]
      Q2 == updateResolution(Q1)
      Q3 == IF ~getAutomaticWorkpiece(Q2) THEN markDirty(Q2) ELSE Q2
  IN [Q3 EXCEPT !.workpiece = bounds]

\* Project::findFile: the 1-based position of the file, 0 for the null pointer
findFile(P, name) ==
  LET abs == absolute(name)
      hits == {i \in 1..Len(P.files) : P.files[i] = abs}
  IN IF hits = {} THEN 0 ELSE CHOOSE i \in hits : \A j \in hits : i <= j

\* addFile without the lookup of duplicates
addFile_NoLookup(P, name) ==
  markDirty([P EXCEPT !.files = Append(P.files, absolute(name))])

addFile(P, name) ==
  LET abs == absolute(name)
  IN IF findFile(P, abs) # 0 THEN P
     ELSE markDirty([P EXCEPT !.files = Append(P.files, abs)])

\* Project::removeFile with the 0-based index of the code
removeFile(P, index) ==
  IF index < Len(P.files)
  THEN markDirty([P EXCEPT !.files =
         SubSeq(P.files, 1, index) \o SubSeq(P.files, index + 2, Len(P.files))])
  ELSE P

\* what XMLReader::read(filename, &options) does to the options: every
\* option the file holds is set to the file's value.  c.has names the options
\* in the file, c.val gives their values.
ReadOptions(P, c) ==
  [P EXCEPT
     !.units = IF "units" \in c.has THEN c.val.units ELSE @,
     !.resolutionMode =
        IF "resolutionMode" \in c.has THEN c.val.resolutionMode ELSE @,
     !.resolution = IF "resolution" \in c.has THEN c.val.resolution ELSE @,
     !.workpieceMargin =
        IF "workpieceMargin" \in c.has THEN c.val.workpieceMargin ELSE @,
     !.automaticWorkpiece =
        IF "automaticWorkpiece" \in c.has THEN c.val.automaticWorkpiece ELSE @,
     !.workpieceMin = IF "workpieceMin" \in c.has THEN c.val.workpieceMin ELSE @,
     !.workpieceMax = IF "workpieceMax" \in c.has THEN c.val.workpieceMax ELSE @,
     !.ncFiles = IF "ncFiles" \in c.has THEN c.val.ncFiles ELSE @]

\* the loop of load over the nc-files from the 1-based position i; threw is
\* TRUE when decodeFilename throws, leaving the files added so far.
RECURSIVE LoadNCFiles(_, _, _)
LoadNCFiles(P, ncFiles, i) ==
  IF i > Len(ncFiles) THEN [p |-> P, threw |-> FALSE]
  ELSE LET relPath == decodeFilename(ncFiles[i])
       IN IF relPath = DecodeError THEN [p |-> P, threw |-> TRUE]
          ELSE LoadNCFiles(addFile(P, absoluteIn(getDirectory(P), relPath)),
                           ncFiles, i + 1)

\* Project::load; exists is SystemUtilities::exists(_filename) and c the
\* options in the file.
load(P, f, exists, c) ==
  LET P1 == setFilename(P, f)
  IN IF exists
     THEN LET P2 == ReadOptions(P1, c)
              P3 == IF P2.automaticWorkpiece = "none"
                    THEN [P2 EXCEPT !.automaticWorkpiece =
                            BoolText(P2.workpieceMin = <<>> /\ P2.workpieceMax = <<>>)]
                    ELSE P2
              R  == LoadNCFiles([P3 EXCEPT !.files = <<>>], P3.ncFiles, 1)
          IN IF R.threw THEN R
             ELSE [p |-> markClean([R.p EXCEPT !.workpiece = getWorkpieceBounds(R.p)]),
                   threw |-> FALSE]
     ELSE [p |-> markClean([P1 EXCEPT !.workpiece = getWorkpieceBounds(P1)]),
           threw |-> FALSE]

\* save marking the project clean before it sets the filename
save_CleanFirst(P, f, opened) ==
  LET P1 == [P EXCEPT !.ncFiles =
               [i \in 1..Len(P.files) |-> encodeFilename(getRelativePath(P.files[i]))]]
  IN IF opened THEN [p |-> setFilename(markClean(P1), f), threw |-> FALSE]
     ELSE [p |-> setFilename(P1, f), threw |-> TRUE]

\* Project::save; opened is FALSE when SystemUtilities::open throws.
save(P, f, opened) ==
  LET P1 == setFilename(P, f)
      P2 == [P1 EXCEPT !.ncFiles =
               [i \in 1..Len(P1.files) |-> encodeFilename(getRelativePath(P1.files[i]))]]
  IN IF opened THEN [p |-> markClean(P2), threw |-> FALSE]
     ELSE [p |-> P2, threw |-> TRUE]

----------------------------------------------------------------------------
(* Project::updateAutomaticWorkpiece.  A move of the path is a record of   *)
(* its type, its tool and the boxes Sweep::getBBoxes appends for it.       *)

VAdd(a, b) == [i \in 1..3 |-> a[i] + b[i]]
VSub(a, b) == [i \in 1..3 |-> a[i] - b[i]]

\* Rectangle3D::isReal(): no coordinate is NaN or infinite
isReal(r) == \A i \in 1..3 : r.rmin[i] \in Int /\ r.rmax[i] \in Int

\* the boxes collected by the loop over the moves
RECURSIVE PathBBoxes(_)
PathBBoxes(path) ==
  IF path = <<>> THEN <<>>
  ELSE LET move == Head(path)
       IN IF move.type = "MOVE_RAPID" \/ move.tool < 0
          THEN PathBBoxes(Tail(path))
          ELSE move.bboxes \o PathBBoxes(Tail(path))

RECURSIVE AddAll(_, _)
AddAll(r, bboxes) ==
  IF bboxes = <<>> THEN r ELSE AddAll(AddRect(r, Head(bboxes)), Tail(bboxes))

\* the slab without the rule of the 2mm
SlabBounds_NoMinimum(wpBounds) ==
  Rectangle3D(wpBounds.rmin, <<wpBounds.rmax[1], wpBounds.rmax[2], 0>>)

\* "Start from z = 0" and "At least 2mm thick"
SlabBounds(wpBounds) ==
  LET bMin == wpBounds.rmin
      bMax == wpBounds.rmax
      slab == Rectangle3D(bMin, <<bMax[1], bMax[2], 0>>)
  IN IF getHeight(slab) < 2 * UnitsPerMM
     THEN AddPoint(slab, <<bMin[1], bMin[2], bMin[3] - 2 * UnitsPerMM>>)
     ELSE slab

\* the margin added in X and Y only
MarginBounds_XYOnly(wpBounds, percent) ==
  LET dims == getDimensions(wpBounds)
      margin == [i \in 1..3 |-> (dims[i] * percent) \div 100]
      lower == AddPoint(wpBounds, VSub(wpBounds.rmin, <<margin[1], margin[2], 0>>))
  IN AddPoint(lower, VAdd(lower.rmax, <<margin[1], margin[2], 0>>))

\* "Margin"
MarginBounds(wpBounds, percent) ==
  LET dims == getDimensions(wpBounds)
      margin == [i \in 1..3 |-> (dims[i] * percent) \div 100]
      lower == AddPoint(wpBounds, VSub(wpBounds.rmin, margin))
  IN AddPoint(lower, VAdd(lower.rmax, <<margin[1], margin[2], 0>>))

\* the loops of updateAutomaticWorkpiece over the moves and over the boxes:
\* the union wpBounds of the boxes of the cutting moves
SweptBounds(path) == AddAll(Rectangle3D0, PathBBoxes(path))

\* updateAutomaticWorkpiece without the test of getAutomaticWorkpiece()
updateAutomaticWorkpiece_Unguarded(P, wpBounds) ==
  LET P1 == setAutomaticWorkpiece(P, TRUE)
  IN IF wpBounds = Rectangle3D0
     THEN [p |-> P1, committed |-> FALSE, swept |-> wpBounds, slab |-> Rectangle3D0]
     ELSE [p |-> setWorkpieceBounds(P1,
                   MarginBounds(SlabBounds(wpBounds), getWorkpieceMargin(P1))),
           committed |-> TRUE, swept |-> wpBounds, slab |-> SlabBounds(wpBounds)]

\* Project::updateAutomaticWorkpiece, given the union wpBounds its loops
\* build from the path.  The result holds the project after the call and,
\* for the claims, whether bounds were committed, the union of the boxes and
\* the bounds before the margin step.
updateAutomaticWorkpiece(P, wpBounds) ==
  IF ~getAutomaticWorkpiece(P)
  THEN [p |-> P, committed |-> FALSE, swept |-> wpBounds, slab |-> Rectangle3D0]
  ELSE LET P1 == setAutomaticWorkpiece(P, TRUE)
       IN IF wpBounds = Rectangle3D0
          THEN [p |-> P1, committed |-> FALSE, swept |-> wpBounds,
                slab |-> Rectangle3D0]
          ELSE LET slab == SlabBounds(wpBounds)
               IN IF isReal(slab)
                  THEN [p |-> setWorkpieceBounds(P1,
                                MarginBounds(slab, getWorkpieceMargin(P1))),
                        committed |-> TRUE, swept |-> wpBounds, slab |-> slab]
                  ELSE [p |-> P1, committed |-> FALSE, swept |-> wpBounds,
                        slab |-> slab]

----------------------------------------------------------------------------
(* ElementSurface.  The header declares the members and the operations;    *)
(* what the operations do follows the design of the surface: an append-    *)
(* only buffer that finalize() seals and clear() empties.                  *)

\* vertices and normals are flat sequences of floats, 3 for each vertex
Flatten3(points) ==
  [k \in 1..(3 * Len(points)) |-> points[((k - 1) \div 3) + 1][((k - 1) % 3) + 1]]

Cross(a, b) ==
  <<a[2] * b[3] - a[3] * b[2], a[3] * b[1] - a[1] * b[3], a[1] * b[2] - a[2] * b[1]>>

Sign(x) == IF x > 0 THEN 1 ELSE IF x < 0 THEN 0 - 1 ELSE 0

\* the unit vector along v, for a v along an axis; the zero vector for zero
Normalize(v) == [i \in 1..3 |-> Sign(v[i])]

\* the normal of an element from the winding of its first three vertices
WindingNormal(verts) ==
  Normalize(Cross(VSub(verts[2], verts[1]), VSub(verts[3], verts[1])))

\* ElementSurface(dim)
ElementSurface(dim) ==
  [dim |-> dim, finalized |-> FALSE, vertices |-> <<>>, normals |-> <<>>,
   count |-> 0, bounds |-> Rectangle3D0]

\* finalize()
finalize(S) == [S EXCEPT !.finalized = TRUE]

RECURSIVE AddPoints(_, _)
AddPoints(r, points) ==
  IF points = <<>> THEN r ELSE AddPoints(AddPoint(r, Head(points)), Tail(points))

\* addElement(vertices, normal): fails on a finalized surface and adds
\* nothing; else appends the vertices with one normal each
addElementNormal(S, verts, normal) ==
  IF S.finalized THEN [s |-> S, ok |-> FALSE]
  ELSE [s |-> [S EXCEPT !.vertices = @ \o Flatten3(verts),
                        !.normals = @ \o Flatten3([i \in 1..Len(verts) |-> normal]),
                        !.count = @ + 1,
                        !.bounds = AddPoints(@, verts)],
        ok |-> TRUE]

\* addElement(vertices): the normal comes from the winding
addElement(S, verts) ==
  IF S.finalized THEN [s |-> S, ok |-> FALSE]
  ELSE addElementNormal(S, verts, WindingNormal(verts))

\* clear() leaving the surface finalized
clear_KeepsSeal(S) ==
  [S EXCEPT !.vertices = <<>>, !.normals = <<>>, !.count = 0,
            !.bounds = Rectangle3D0]

\* clear()
clear(S) ==
  [S EXCEPT !.finalized = FALSE, !.vertices = <<>>, !.normals = <<>>,
            !.count = 0, !.bounds = Rectangle3D0]

\* the elements appended in the model: triangles and quads of the unit cube
Elements(dim) ==
  IF dim = 3
  THEN {<<<<0, 0, 0>>, <<1, 0, 0>>, <<0, 1, 0>>>>,
        <<<<0, 0, 1>>, <<0, 1, 1>>, <<1, 0, 1>>>>}
  ELSE {<<<<0, 0, 0>>, <<1, 0, 0>>, <<1, 1, 0>>, <<0, 1, 0>>>>,
        <<<<0, 0, 0>>, <<0, 0, 1>>, <<1, 0, 1>>, <<1, 0, 0>>>>}

\* the explicit normals passed in the model
Normals == {<<0, 0, 1>>, <<1, 0, 0>>}

----------------------------------------------------------------------------
(* Tool.cpp: a Tool, its sweep and its XML and JSON forms                  *)
(* Lengths are doubles, modelled as exact fractions [num, den] of a        *)
(* millimetre.  number, pocket, description and the axes play no part in   *)
(* the geometry and are left out.                                          *)

Zero == Fraction(0, 1)

\* the double x * p / q
Times(x, p, q) == Fraction(x.num * p, x.den * q)

Less(x, y) == x.num * y.den < y.num * x.den

\* 25.4 = INCH_NUM / INCH_DEN
INCH_NUM == 127
INCH_DEN == 5

\* small = 0.0000001 = 1 / SMALL_DEN
SMALL_DEN == 10000000

\* the enumerators of ToolShape that getSweep has a case for
ToolShapes ==
  {"TS_CYLINDRICAL", "TS_CONICAL", "TS_BALLNOSE", "TS_SPHEROID", "TS_SNUBNOSE"}

\* a ToolShape value that is none of the enumerators
TS_OTHER == "TS_OTHER"

\* Enumeration::toString of a ToolUnits and of a ToolShape
UnitsToString(u) == IF u = "inch" THEN "INCH" ELSE "MM"

ShapeToString(sh) ==
  CASE sh = "TS_CYLINDRICAL" -> "CYLINDRICAL"
    [] sh = "TS_CONICAL"     -> "CONICAL"
    [] sh = "TS_BALLNOSE"    -> "BALLNOSE"
    [] sh = "TS_SPHEROID"    -> "SPHEROID"
    [] sh = "TS_SNUBNOSE"    -> "SNUBNOSE"
    [] OTHER                 -> "UNKNOWN_ENUM"

\* Enumeration::parse: the enumerator of the token; it throws for a token
\* that names none
ParseError == "parse-error"

UnitsParse(token) ==
  CASE token = "MM"   -> "mm"
    [] token = "INCH" -> "inch"
    [] OTHER          -> ParseError

ShapeParse(token) ==
  IF \E sh \in ToolShapes : ShapeToString(sh) = token
  THEN CHOOSE sh \in ToolShapes : ShapeToString(sh) = token
  ELSE ParseError

\* Tool::Tool(number, pocket, units)
Tool(units) ==
  [units |-> units, shape |-> "TS_CYLINDRICAL",
   length |-> IF units = "mm" THEN Fraction(10, 1) ELSE Fraction(INCH_NUM, INCH_DEN),
   radius |-> IF units = "mm" THEN Fraction(1, 1)
              ELSE Fraction(INCH_NUM, INCH_DEN * 16),
   snubDiameter |-> Zero]

getDiameter(T) == Times(T.radius, 2, 1)

setDiameter(T, d) == [T EXCEPT !.radius = Times(d, 1, 2)]

\* the sweeps: ConicSweep(length, radius1, radius2),
\* SpheroidSweep(radius, length), and a CompositeSweep of the children added
\* to it, each with its offset
ConicSweep(length, radius1, radius2) ==
  [kind |-> "conic", length |-> length, radius1 |-> radius1, radius2 |-> radius2]

SpheroidSweep(radius, length) ==
  [kind |-> "spheroid", radius |-> radius, length |-> length]

CompositeSweep(children) == [kind |-> "composite", children |-> children]

Child(sweep, offset) == [sweep |-> sweep, offset |-> offset]

NoSweep == [kind |-> "none"]

getSweep_BallnoseShankFirst(T) ==
  IF T.shape = "TS_BALLNOSE"
  THEN [threw |-> FALSE,
        sweep |-> CompositeSweep(
          <<Child(ConicSweep(T.length, T.radius, T.radius), T.radius),
            Child(SpheroidSweep(T.radius, Times(T.radius, 2, 1)), Zero)>>)]
  ELSE [threw |-> TRUE, sweep |-> NoSweep]

\* Tool::getSweep: [threw, sweep]
getSweep(T) ==
  CASE T.shape = "TS_CYLINDRICAL" ->
         [threw |-> FALSE, sweep |-> ConicSweep(T.length, T.radius, T.radius)]
    [] T.shape = "TS_CONICAL" ->
         [threw |-> FALSE, sweep |-> ConicSweep(T.length, T.radius, Zero)]
    [] T.shape = "TS_BALLNOSE" ->
         [threw |-> FALSE,
          sweep |-> CompositeSweep(
            <<Child(SpheroidSweep(T.radius, Times(T.radius, 2, 1)), Zero),
              Child(ConicSweep(T.length, T.radius, T.radius), T.radius)>>)]
    [] T.shape = "TS_SPHEROID" ->
         [threw |-> FALSE, sweep |-> SpheroidSweep(T.radius, T.length)]
    [] T.shape = "TS_SNUBNOSE" ->
         [threw |-> FALSE,
          sweep |-> ConicSweep(T.length, T.radius, Times(T.snubDiameter, 1, 2))]
    [] OTHER -> [threw |-> TRUE, sweep |-> NoSweep]

\* The attributes of a <tool> element and the members of a JSON dict: the
\* names present, and a value for every name (the value of an absent name is
\* never read and is kept at a fixed filler).  The text of a number is taken
\* to carry the double exactly.
AttrNames == {"units", "shape", "length", "radius", "diameter", "snub_diameter"}

Attributes(has, units, shape, length, radius, diameter, snub) ==
  [has |-> has,
   units |-> IF "units" \in has THEN units ELSE "",
   shape |-> IF "shape" \in has THEN shape ELSE "",
   length |-> IF "length" \in has THEN length ELSE Zero,
   radius |-> IF "radius" \in has THEN radius ELSE Zero,
   diameter |-> IF "diameter" \in has THEN diameter ELSE Zero,
   snub_diameter |-> IF "snub_diameter" \in has THEN snub ELSE Zero]

\* a read that falls back to the defaults of a Tool for a token that does
\* not parse
ReadUnitsAndShape_Strict(T, attrs) ==
  LET u == IF "units" \in attrs.has THEN UnitsParse(attrs.units) ELSE T.units
      sh == IF "shape" \in attrs.has THEN ShapeParse(attrs.shape) ELSE T.shape
  IN [T EXCEPT !.units = IF u = ParseError THEN "mm" ELSE u,
               !.shape = IF sh = ParseError THEN "TS_CYLINDRICAL" ELSE sh]

\* the try blocks of Tool::read(XMLAttributes): the units and the shape are
\* set when the token parses, and left as they are when parse throws
ReadUnitsAndShape(T, attrs) ==
  LET u == IF "units" \in attrs.has THEN UnitsParse(attrs.units) ELSE T.units
      sh == IF "shape" \in attrs.has THEN ShapeParse(attrs.shape) ELSE T.shape
  IN [T EXCEPT !.units = IF u = ParseError THEN @ ELSE u,
               !.shape = IF sh = ParseError THEN @ ELSE sh]

\* Tool::read(const XMLAttributes &): [tool, threw]
readXML(T, attrs) ==
  LET T1 == ReadUnitsAndShape(T, attrs)
      inch == T1.units = "inch"
      scaled(x) == IF inch THEN Times(x, INCH_NUM, INCH_DEN) ELSE x
      T2 == [T1 EXCEPT !.length = scaled(attrs.length)]
      T3 == IF "radius" \in attrs.has
            THEN [T2 EXCEPT !.radius = scaled(attrs.radius)]
            ELSE [T2 EXCEPT !.radius = scaled(Times(attrs.diameter, 1, 2))]
      T4 == IF "snub_diameter" \in attrs.has
            THEN [T3 EXCEPT !.snubDiameter = scaled(attrs.snub_diameter)]
            ELSE T3
  IN IF "length" \notin attrs.has THEN [tool |-> T1, threw |-> TRUE]
     ELSE IF "radius" \notin attrs.has /\ "diameter" \notin attrs.has
          THEN [tool |-> T2, threw |-> TRUE]
          ELSE [tool |-> T4, threw |-> FALSE]

\* Tool::write(XMLWriter &): the attributes of the element written
writeXML(T) ==
  LET inch == T.units = "inch"
      scaled(x) == IF inch THEN Times(x, INCH_DEN, INCH_NUM) ELSE x
      snub == T.shape = "TS_SNUBNOSE" /\ Less(Fraction(1, SMALL_DEN), T.snubDiameter)
  IN Attributes({"units", "shape", "length", "radius"}
                  \cup (IF snub THEN {"snub_diameter"} ELSE {}),
                UnitsToString(T.units), ShapeToString(T.shape),
                scaled(T.length), scaled(T.radius), Zero, scaled(T.snubDiameter))

\* Tool::write(JSON::Sink &, bool): the members of the dict written
writeJSON(T) ==
  LET inch == T.units = "inch"
      scaled(x) == IF inch THEN Times(x, INCH_DEN, INCH_NUM) ELSE x
  IN Attributes({"units", "shape", "length", "diameter"}
                  \cup (IF T.shape = "TS_SNUBNOSE" THEN {"snub_diameter"} ELSE {}),
                UnitsToString(T.units), ShapeToString(T.shape),
                scaled(T.length), Zero, scaled(getDiameter(T)),
                scaled(T.snubDiameter))

\* Tool::read(const JSON::Value &): [tool, threw]; parse of the units or of
\* the shape is not caught here
readJSON(T, value) ==
  LET u == IF "units" \in value.has THEN UnitsParse(value.units) ELSE T.units
      T1 == [T EXCEPT !.units = IF u = ParseError THEN @ ELSE u]
      inch == T1.units = "inch"
      scaled(x) == IF inch THEN Times(x, INCH_NUM, INCH_DEN) ELSE x
      sh == IF "shape" \in value.has THEN ShapeParse(value.shape) ELSE T.shape
      T2 == [T1 EXCEPT !.shape = IF sh = ParseError THEN @ ELSE sh]
      T3 == IF "length" \in value.has
            THEN [T2 EXCEPT !.length = scaled(value.length)] ELSE T2
      T4 == IF "diameter" \in value.has
            THEN setDiameter(T3, scaled(value.diameter)) ELSE T3
      T5 == IF "snub_diameter" \in value.has
            THEN [T4 EXCEPT !.snubDiameter = scaled(value.snub_diameter)] ELSE T4
  IN IF u = ParseError THEN [tool |-> T, threw |-> TRUE]
     ELSE IF sh = ParseError THEN [tool |-> T1, threw |-> TRUE]
          ELSE [tool |-> T5, threw |-> FALSE]

----------------------------------------------------------------------------
(* SettingsDialog.cpp: the resolution spin box and combo box                *)
(* The slots are connected directly, so a widget setter that changes the   *)
(* value runs the slot of the signal before it returns.  The spin box holds*)
(* a resolution as given; its range and decimals belong to the form.       *)

\* SettingsDialog::SettingsDialog, with the values the form gives the widgets
SettingsDialog(spin, combo) ==
  [changing |-> FALSE, bounds |-> Rectangle3D0, spin |-> spin, combo |-> combo,
   units |-> "mm"]

\* QDoubleSpinBox::setValue: valueChanged is emitted when the value changes
setValue(D, value) ==
  [d |-> [D EXCEPT !.spin = value], emit |-> value # D.spin]

\* QComboBox::setCurrentIndex: currentIndexChanged is emitted when the index
\* changes
setCurrentIndex(D, index) ==
  [d |-> [D EXCEPT !.combo = index], emit |-> index # D.combo]

\* on_resolutionComboBox_currentIndexChanged up to the return of setValue:
\* [d, emit, returned]
on_resolutionComboBox_currentIndexChanged(D, index) ==
  IF D.changing THEN [d |-> D, emit |-> FALSE, returned |-> TRUE]
  ELSE LET resolution == computeResolution(index, D.bounds)
           r == setValue([D EXCEPT !.changing = TRUE], resolution)
       IN [d |-> r.d, emit |-> r.emit, returned |-> FALSE]

\* the slot of the spin box without the test of changing
on_resolutionDoubleSpinBox_valueChanged_Unguarded(D, value) ==
  LET r == setCurrentIndex([D EXCEPT !.changing = TRUE], MANUAL)
  IN [d |-> r.d, emit |-> r.emit, returned |-> FALSE]

\* on_resolutionDoubleSpinBox_valueChanged up to the return of
\* setCurrentIndex: [d, emit, returned]
on_resolutionDoubleSpinBox_valueChanged(D, value) ==
  IF D.changing THEN [d |-> D, emit |-> FALSE, returned |-> TRUE]
  ELSE LET r == setCurrentIndex([D EXCEPT !.changing = TRUE], MANUAL)
       IN [d |-> r.d, emit |-> r.emit, returned |-> FALSE]

\* a call on the stack: exec or a slot, where it stands, and its argument
Frame(h, pc, arg) == [h |-> h, pc |-> pc, arg |-> arg]

----------------------------------------------------------------------------
(* The parts of the state a specification does not use stay idle           *)

\* no value returned yet
NoResult == [num |-> 0 - 1, den |-> 1]

CodecIdle ==
  /\ cStr = <<>>
  /\ cEnc = <<>>
  /\ cDec = <<>>
  /\ cPc = "idle"

ResIdle ==
  /\ rMode = "RESOLUTION_MEDIUM"
  /\ rBounds = Rectangle3D0
  /\ rOut = NoResult
  /\ rPc = "idle"

SurfaceIdle ==
  /\ surface = ElementSurface(3)
  /\ sLast = [op |-> "idle", ok |-> TRUE, sealed |-> FALSE]

TOp(name, arg, out) == [op |-> name, arg |-> arg, out |-> out]

ToolIdle ==
  /\ tool = Tool("mm")
  /\ tLast = TOp("idle", <<>>, <<>>)

DOp(name, arg) == [op |-> name, arg |-> arg]

DialogIdle ==
  /\ dialog = SettingsDialog(One, "RESOLUTION_MEDIUM")
  /\ dStack = <<>>
  /\ dLast = DOp("idle", <<>>)

----------------------------------------------------------------------------
(* The project: inputs of the operations                                   *)

ProjectFiles == {"/p/x.xml", "/p/y.xml"}

ToolUnits == {"mm", "inch"}

\* doubles a caller passes to setResolution, or a project file holds
ResolutionInputs == {One, Literal(1, 2)}

\* percents a caller passes to setWorkpieceMargin
Margins == {5, 50, 0 - 5}

Box(x0, y0, z0, x1, y1, z1) ==
  Rectangle3D(<<x0 * UnitsPerMM, y0 * UnitsPerMM, z0 * UnitsPerMM>>,
              <<x1 * UnitsPerMM, y1 * UnitsPerMM, z1 * UnitsPerMM>>)

\* bounds a caller passes to setWorkpieceBounds: a slab, and a flat one
UserBounds == {Box(0, 0, 0 - 2, 2, 2, 0), Box(0, 0, 0, 2, 2, 0)}

NameA == <<CH_A>>              \* "A"
NameB == <<CH_SPACE, CH_B>>    \* " B"
NameT == <<CH_TAB>>            \* a tab

\* names a caller passes to addFile
FileArgs == {NameA, NameB, NameT, absolute(NameA)}

\* the options a project file may hold
FileDefaults ==
  [units |-> "mm", resolutionMode |-> "RESOLUTION_MEDIUM", resolution |-> One,
   workpieceMargin |-> 5, automaticWorkpiece |-> "none",
   workpieceMin |-> <<>>, workpieceMax |-> <<>>, ncFiles |-> <<>>]

\* an empty file
NoOptions == [has |-> {}, val |-> FileDefaults]

\* a file of settings: a mode with a resolution, units, a workpiece
SettingsFile ==
  [has |-> {"units", "resolutionMode", "resolution", "workpieceMargin",
            "automaticWorkpiece", "workpieceMin", "workpieceMax"},
   val |-> [FileDefaults EXCEPT
              !.units = "inch", !.resolutionMode = "RESOLUTION_LOW",
              !.resolution = Literal(1, 2), !.workpieceMargin = 50,
              !.automaticWorkpiece = "false",
              !.workpieceMin = <<0, 0, 0 - 2 * UnitsPerMM>>,
              !.workpieceMax = <<2 * UnitsPerMM, 2 * UnitsPerMM, 0>>]]

\* files of nc-files: a name twice (once escaped, once absolute), and a
\* name followed by a broken escape
NCFilesTwice ==
  [has |-> {"ncFiles"},
   val |-> [FileDefaults EXCEPT
              !.ncFiles = <<<<CH_PERCENT, CH_2, CH_0, CH_B>>, NameA,
                            absolute(NameB), NameA>>]]
NCFilesBroken ==
  [has |-> {"ncFiles"},
   val |-> [FileDefaults EXCEPT !.ncFiles = <<NameA, <<CH_PERCENT>>>>]]

\* the boxes of the sweeps: 2mm x 2mm in X/Y, the z range in mm
SweepBoxes ==
  { Box(0, 0, 0 - 1, 2, 2, 0),       \* 1mm high, below z = 0
    Box(0, 0, 0 - 4, 2, 2, 0 - 3),   \* a deep cut
    Box(0, 0, 0, 2, 2, 1),           \* resting on z = 0
    Box(0, 0, 1, 2, 2, 2),           \* above z = 0, lower than 2mm
    Box(0, 0, 3, 2, 2, 4) }          \* above z = 0, higher than 2mm

Moves ==
  { [type |-> "MOVE_RAPID", tool |-> 1, bboxes |-> <<Box(0, 0, 0 - 4, 2, 2, 0 - 3)>>],
    [type |-> "MOVE_CUTTING", tool |-> 0 - 1, bboxes |-> <<Box(0, 0, 0 - 4, 2, 2, 0 - 3)>>],
    [type |-> "MOVE_CUTTING", tool |-> 0, bboxes |-> <<>>] }
  \cup { [type |-> "MOVE_CUTTING", tool |-> 1, bboxes |-> <<b>>] : b \in SweepBoxes }

RECURSIVE PathsOfLen(_)
PathsOfLen(n) ==
  IF n = 0 THEN {<<>>}
  ELSE {Append(p, m) : p \in PathsOfLen(n - 1), m \in Moves}

Paths == UNION {PathsOfLen(n) : n \in 0..MaxPath}

\* a non-rapid move with a tool id >= 0 whose sweep yields a box
Cuts(path) ==
  \E i \in 1..Len(path) :
    /\ path[i].type # "MOVE_RAPID"
    /\ path[i].tool >= 0
    /\ Len(path[i].bboxes) > 0

----------------------------------------------------------------------------
(* The project: state after construction and one action per operation,     *)
(* with the set its arguments are drawn from.  lastOp names the operation  *)
(* that ran last, with its argument.                                       *)

\* Project::Project with an empty filename; the member resolution is not
\* initialised by the constructor.
Project0(res) ==
  [filename |-> "", units |-> "mm", resolutionMode |-> "RESOLUTION_MEDIUM",
   resolution |-> res, workpieceMargin |-> 5, automaticWorkpiece |-> "none",
   workpieceMin |-> <<>>, workpieceMax |-> <<>>, workpiece |-> Rectangle3D0,
   files |-> <<>>, ncFiles |-> <<>>, dirty |-> FALSE]

Op(name, arg, aux) == [op |-> name, arg |-> arg, aux |-> aux]

ProjectIdle ==
  /\ project = Project0(One)
  /\ lastOp = Op("idle", <<>>, <<>>)

InitProject ==
  /\ \E res \in ResolutionInputs : project = Project0(res)
  /\ lastOp = Op("Project", <<>>, <<>>)

Others == UNCHANGED <<codecVars, resVars, surfaceVars, toolVars, dialogVars>>

SetFilename(F) ==
  \E f \in F :
    /\ project' = setFilename(project, f)
    /\ lastOp' = Op("setFilename", f, [changed |-> project' # project])
    /\ Others

SetUnits(U) ==
  \E u \in U :
    /\ project' = setUnits(project, u)
    /\ lastOp' = Op("setUnits", u, [changed |-> project' # project])
    /\ Others

SetResolutionMode(M) ==
  \E x \in M :
    /\ project' = setResolutionMode(project, x)
    /\ lastOp' = Op("setResolutionMode", x, [changed |-> project' # project])
    /\ Others

SetResolution(X) ==
  \E x \in X :
    /\ project' = setResolution(project, x)
    /\ lastOp' = Op("setResolution", x, [changed |-> project' # project])
    /\ Others

SetWorkpieceMargin(X) ==
  \E x \in X :
    /\ project' = setWorkpieceMargin(project, x)
    /\ lastOp' = Op("setWorkpieceMargin", x, [changed |-> project' # project])
    /\ Others

SetAutomaticWorkpiece ==
  \E x \in BOOLEAN :
    /\ project' = setAutomaticWorkpiece(project, x)
    /\ lastOp' = Op("setAutomaticWorkpiece", x, [changed |-> project' # project])
    /\ Others

SetWorkpieceBounds(B) ==
  \E bounds \in B :
    /\ project' = setWorkpieceBounds(project, bounds)
    /\ lastOp' = Op("setWorkpieceBounds", bounds, [changed |-> project' # project])
    /\ Others

AddFile(N, max) ==
  \E name \in N :
    /\ Len(project.files) < max \/ findFile(project, name) # 0
    /\ project' = addFile(project, name)
    /\ lastOp' = Op("addFile", name, [changed |-> project' # project])
    /\ Others

RemoveFile(max) ==
  \E index \in 0..max :
    /\ project' = removeFile(project, index)
    /\ lastOp' = Op("removeFile", index, [changed |-> project' # project])
    /\ Others

Load(F, C) ==
  \E f \in F, exists \in BOOLEAN, c \in C :
    /\ exists => f # ""
    /\ ~exists => c = NoOptions
    /\ LET R == load(project, f, exists, c)
       IN /\ project' = R.p
          /\ lastOp' = Op(IF R.threw THEN "load threw" ELSE "load", f,
                          [renamed |-> R.p.filename # project.filename,
                           read |-> exists])
    /\ Others

Save(F) ==
  \E f \in F, opened \in BOOLEAN :
    /\ opened => setFilename(project, f).filename # ""
    /\ LET R == save(project, f, opened)
       IN /\ project' = R.p
          /\ lastOp' = Op(IF R.threw THEN "save threw" ELSE "save", f,
                          [renamed |-> R.p.filename # project.filename])
    /\ Others

\* what the paths amount to: whether a path has a cut, and the union of the
\* boxes its moves yield
PathInputs == {[cuts |-> Cuts(path), wpBounds |-> SweptBounds(path)] : path \in Paths}

UpdateAutomaticWorkpiece ==
  \E path \in PathInputs :
    /\ LET R == updateAutomaticWorkpiece(project, path.wpBounds)
       IN /\ project' = R.p
          /\ lastOp' = Op("updateAutomaticWorkpiece", path.cuts,
                          [committed |-> R.committed, swept |-> R.swept,
                           slab |-> R.slab])
    /\ Others

----------------------------------------------------------------------------
(* Spec: a project under its mutators, load and save                       *)

Init ==
  /\ InitProject
  /\ CodecIdle
  /\ ResIdle
  /\ SurfaceIdle
  /\ ToolIdle
  /\ DialogIdle

Next ==
  \/ SetFilename({"", "/p/x.xml", "/p/y.xml"})
  \/ SetUnits(ToolUnits)
  \/ SetResolutionMode({"RESOLUTION_MANUAL", "RESOLUTION_MEDIUM", "RESOLUTION_HIGH"})
  \/ SetResolution(ResolutionInputs)
  \/ SetWorkpieceMargin({5, 50})
  \/ SetAutomaticWorkpiece
  \/ SetWorkpieceBounds(UserBounds)
  \/ AddFile({NameA, absolute(NameA)}, MaxFiles)
  \/ RemoveFile(MaxFiles)
  \/ Load({"", "/p/x.xml"}, {NoOptions, SettingsFile})
  \/ Save({"", "/p/x.xml"})

Spec == Init /\ [][Next]_vars

----------------------------------------------------------------------------
(* SpecFiles: the file list of a project                                   *)

NextFiles ==
  \/ SetFilename(ProjectFiles)
  \/ AddFile(FileArgs, MaxFiles)
  \/ RemoveFile(MaxFiles)
  \/ Load(ProjectFiles, {NoOptions, NCFilesTwice, NCFilesBroken})
  \/ Save(ProjectFiles \cup {""})

SpecFiles == Init /\ [][NextFiles]_vars

----------------------------------------------------------------------------
(* SpecWorkpiece: the automatic workpiece of a project                     *)

NextWorkpiece ==
  \/ SetResolutionMode({"RESOLUTION_MANUAL", "RESOLUTION_LOW"})
  \/ SetWorkpieceMargin(Margins)
  \/ SetAutomaticWorkpiece
  \/ SetWorkpieceBounds({Box(0, 0, 0 - 2, 2, 2, 0)})
  \/ UpdateAutomaticWorkpiece

SpecWorkpiece == Init /\ [][NextWorkpiece]_vars

----------------------------------------------------------------------------
(* Claims about updateAutomaticWorkpiece, under SpecWorkpiece              *)

Updated == lastOp.op = "updateAutomaticWorkpiece"
Committed == Updated /\ lastOp.aux.committed

\* C5: whenever updateAutomaticWorkpiece commits new workpiece bounds, the
\* committed cuboid is at least 2mm high, whatever the z range of the union
\* of the swept boxes.
C5_AtLeast2mm ==
  Committed =>
    /\ getHeight(getWorkpieceBounds(project)) >= 2 * UnitsPerMM
    /\ getHeight(project.workpiece) >= 2 * UnitsPerMM

\* a commit for boxes less than 2mm high: the slab was extended to 2mm
C5_ThinCommitted ==
  /\ Committed
  /\ getHeight(Rectangle3D(lastOp.aux.swept.rmin,
        <<lastOp.aux.swept.rmax[1], lastOp.aux.swept.rmax[2], 0>>)) < 2 * UnitsPerMM
  /\ getHeight(project.workpiece) >= 2 * UnitsPerMM

PercentOf(percent, length) == (length * percent) \div 100

C7_NoCutsNoChange ==
  [][(lastOp'.op = "updateAutomaticWorkpiece"
        /\ (~getAutomaticWorkpiece(project) \/ ~lastOp'.arg))
      => /\ project'.workpieceMin = project.workpieceMin
         /\ project'.workpieceMax = project.workpieceMax
         /\ project'.workpiece = project.workpiece
         /\ project'.resolution = project.resolution]_vars

\* updateAutomaticWorkpiece has run on a path with cuts while the automatic
\* workpiece was off
C7_CutsButNotAutomatic ==
  /\ Updated
  /\ lastOp.arg
  /\ ~getAutomaticWorkpiece(project)
  /\ ~lastOp.aux.committed

----------------------------------------------------------------------------
(* Claims about the mutators, load and save, under Spec                    *)

Mutators ==
  {"setFilename", "setUnits", "setResolutionMode", "setResolution",
   "setWorkpieceMargin", "setAutomaticWorkpiece", "setWorkpieceBounds",
   "addFile", "removeFile"}

WithoutIndex(files, index) ==
  SubSeq(files, 1, index) \o SubSeq(files, index + 2, Len(files))

\* the new value a of the mutator op equals the current value in P
SameValue(op, a, P) ==
  CASE op = "setFilename"           -> a = P.filename
    [] op = "setUnits"              -> a = P.units
    [] op = "setResolutionMode"     -> a = P.resolutionMode
    [] op = "setResolution"         -> a = P.resolution
    [] op = "setWorkpieceMargin"    -> a = P.workpieceMargin
    [] op = "setAutomaticWorkpiece" -> a = getAutomaticWorkpiece(P)
    [] op = "setWorkpieceBounds"    -> a = getWorkpieceBounds(P)
    [] op = "addFile"               -> \E i \in 1..Len(P.files) : P.files[i] = absolute(a)
    [] op = "removeFile"            -> a >= Len(P.files)

\* the project Q holds the new value a of the mutator op, applied to P
Applied(op, a, P, Q) ==
  CASE op = "setFilename"           -> Q.filename = a
    [] op = "setUnits"              -> Q.units = a
    [] op = "setResolutionMode"     -> Q.resolutionMode = a
    [] op = "setResolution"         -> Q.resolution = a
    [] op = "setWorkpieceMargin"    -> Q.workpieceMargin = a
    [] op = "setAutomaticWorkpiece" -> getAutomaticWorkpiece(Q) = a
    [] op = "setWorkpieceBounds"    -> getWorkpieceBounds(Q) = a /\ Q.workpiece = a
    [] op = "addFile"               -> Q.files = Append(P.files, absolute(a))
    [] op = "removeFile"            -> Q.files = WithoutIndex(P.files, a)

\* C2 as stated: a mutator called with the current value changes nothing,
\* the dirty flag included; called with another value it applies the change
\* and returns with the dirty flag true.
C2_NoOpOrDirty ==
  [][lastOp'.op \in Mutators =>
       IF SameValue(lastOp'.op, lastOp'.arg, project)
       THEN project' = project
       ELSE Applied(lastOp'.op, lastOp'.arg, project, project') /\ project'.dirty]_vars

\* Q differs from P in the dirty flag and in the members F at most
OnlyChanged(P, Q, F) ==
  \A k \in (DOMAIN P) \ (F \cup {"dirty"}) : Q[k] = P[k]

\* C2 amended: no mutator clears the dirty flag.  setUnits,
\* setResolutionMode, setWorkpieceMargin and addFile change nothing when the
\* new value equals the current one (a file already listed), and otherwise
\* apply the change and return dirty; so does setFilename, for which an empty
\* name changes nothing either, and removeFile, which changes nothing for an
\* index past the end.  setResolution applies a different value in every
\* mode but marks the project dirty in manual mode only.
\* setAutomaticWorkpiece always sets the option and marks dirty when the
\* argument differs from getAutomaticWorkpiece().  setWorkpieceBounds always
\* stores the bounds, equal or not, recomputes the resolution outside manual
\* mode, and marks dirty when the automatic workpiece is off afterwards.
C2_MutatorsAmended ==
  [][lastOp'.op \in Mutators =>
       LET op == lastOp'.op
           a == lastOp'.arg
           P == project
           Q == project'
           plain == IF SameValue(op, a, P) THEN Q = P
                    ELSE Applied(op, a, P, Q) /\ Q.dirty
       IN /\ P.dirty => Q.dirty
          /\ CASE op = "setFilename" ->
                    IF a = "" THEN Q = P ELSE plain
               [] op \in {"setUnits", "setWorkpieceMargin", "addFile", "removeFile"} ->
                    plain
               [] op = "setResolutionMode" ->
                    /\ plain
                    /\ Q.resolution =
                         IF a # P.resolutionMode /\ a # MANUAL
                         THEN computeResolution(a, getWorkpieceBounds(P))
                         ELSE P.resolution
               [] op = "setResolution" ->
                    /\ Q.resolution = a
                    /\ Q.dirty = (P.dirty \/ (a # P.resolution /\ P.resolutionMode = MANUAL))
                    /\ OnlyChanged(P, Q, {"resolution"})
               [] op = "setAutomaticWorkpiece" ->
                    /\ Q.automaticWorkpiece = BoolText(a)
                    /\ Q.dirty = (P.dirty \/ getAutomaticWorkpiece(P) # a)
                    /\ OnlyChanged(P, Q, {"automaticWorkpiece"})
               [] op = "setWorkpieceBounds" ->
                    /\ Q.workpieceMin = a.rmin /\ Q.workpieceMax = a.rmax
                    /\ Q.workpiece = a
                    /\ Q.resolution =
                         IF P.resolutionMode # MANUAL
                         THEN computeResolution(P.resolutionMode, a)
                         ELSE P.resolution
                    /\ Q.dirty = (P.dirty \/ ~getAutomaticWorkpiece(Q))
                    /\ OnlyChanged(P, Q, {"workpieceMin", "workpieceMax",
                                          "workpiece", "resolution"})]_vars

\* setResolution has stored a new value outside manual mode and left the
\* project clean
C2_ResolutionSetNotDirty ==
  /\ lastOp.op = "setResolution"
  /\ lastOp.aux.changed
  /\ project.resolution = lastOp.arg
  /\ project.resolutionMode # MANUAL
  /\ ~project.dirty

ResolutionFollowsMode(P) ==
  P.resolutionMode # MANUAL =>
    P.resolution = computeResolution(P.resolutionMode, getWorkpieceBounds(P))

\* C3: outside manual mode the stored resolution equals
\* computeResolution(mode, getWorkpieceBounds()), in every state reached by
\* load, setResolution, setResolutionMode and setWorkpieceBounds.  Stated for
\* the steps of these operations from a state where it holds.
C3_ResolutionFollowsMode ==
  [][(ResolutionFollowsMode(project)
        /\ lastOp'.op \in {"load", "setResolution", "setResolutionMode",
                           "setWorkpieceBounds"})
      => ResolutionFollowsMode(project')]_vars

\* C8: a successful save returns with the dirty flag false, also when it
\* changes the filename of the project, and so does load.
C8_CleanAfterSaveAndLoad ==
  lastOp.op \in {"save", "load"} => ~project.dirty

\* save has returned after changing the filename of the project
C8_SavedUnderNewName ==
  /\ lastOp.op = "save"
  /\ lastOp.aux.renamed
  /\ project.filename = lastOp.arg
  /\ ~project.dirty

----------------------------------------------------------------------------
(* Claims about the file list, under SpecFiles                             *)

Range(seq) == {seq[i] : i \in 1..Len(seq)}

NoDuplicates(files) ==
  \A i, j \in 1..Len(files) : i # j => files[i] # files[j]

\* the first position of p in seq
Position(seq, p) ==
  CHOOSE i \in 1..Len(seq) : seq[i] = p /\ \A j \in 1..(i - 1) : seq[j] # p

\* the entries of old that remain in new are in the same order, and the
\* entries that are new come after them
InsertionOrderKept(old, new) ==
  /\ \A p, q \in Range(old) \cap Range(new) :
       Position(old, p) < Position(old, q) => Position(new, p) < Position(new, q)
  /\ \A p \in Range(new) \ Range(old), q \in Range(old) \cap Range(new) :
       Position(new, q) < Position(new, p)

\* the absolute paths of the nc-files of a project file, in the file's order
ListedPaths(ncFiles) ==
  [i \in 1..Len(ncFiles) |-> absoluteIn(Cwd, decodeFilename(ncFiles[i]))]

----------------------------------------------------------------------------
(* computeResolution applied to drawn arguments                            *)

Corners ==
  {<<x * UnitsPerMM, y * UnitsPerMM, z * UnitsPerMM>> :
     x \in 0..MaxCoordMM, y \in 0..MaxCoordMM, z \in 0..MaxCoordMM}

ResBounds == {Rectangle3D0} \cup {Rectangle3D(p, q) : p \in Corners, q \in Corners}

InitRes ==
  /\ rMode \in ResolutionModes
  /\ rBounds \in ResBounds
  /\ rOut = NoResult
  /\ rPc = "start"
  /\ CodecIdle
  /\ ProjectIdle
  /\ SurfaceIdle
  /\ ToolIdle
  /\ DialogIdle

Compute ==
  /\ rPc = "start"
  /\ rOut' = computeResolution(rMode, rBounds)
  /\ rPc' = "done"
  /\ UNCHANGED <<rMode, rBounds>>
  /\ UNCHANGED <<codecVars, projectVars, surfaceVars, toolVars, dialogVars>>

NextRes == Compute

SpecRes == InitRes /\ [][NextRes]_vars

\* C4: computeResolution returns 1 in manual mode for any bounds, and 1 in
\* every mode for bounds of zero volume, bounds flat in one axis included.
C4_OneForManualOrZeroVolume ==
  (rPc = "done" /\ (rMode = "RESOLUTION_MANUAL" \/ getVolume(rBounds) = 0))
    => rOut = One

----------------------------------------------------------------------------
(* The codec applied to a drawn file name                                  *)

InitCodec ==
  /\ cStr \in Strings
  /\ cEnc = <<>>
  /\ cDec = <<>>
  /\ cPc = "start"
  /\ ResIdle
  /\ ProjectIdle
  /\ SurfaceIdle
  /\ ToolIdle
  /\ DialogIdle

Encode ==
  /\ cPc = "start"
  /\ cEnc' = encodeFilename(cStr)
  /\ cPc' = "encoded"
  /\ UNCHANGED <<cStr, cDec>>
  /\ UNCHANGED <<resVars, projectVars, surfaceVars, toolVars, dialogVars>>

Decode ==
  /\ cPc = "encoded"
  /\ cDec' = decodeFilename(cEnc)
  /\ cPc' = "done"
  /\ UNCHANGED <<cStr, cEnc>>
  /\ UNCHANGED <<resVars, projectVars, surfaceVars, toolVars, dialogVars>>

NextCodec == Encode \/ Decode

SpecCodec == InitCodec /\ [][NextCodec]_vars

\* C1: decodeFilename(encodeFilename(s)) = s for every file name s built from
\* ordinary characters, tab, newline, vertical tab, carriage return, '%' and
\* space.
C1_RoundTrip == cPc = "done" => cDec = cStr

----------------------------------------------------------------------------
(* SpecSurface: an ElementSurface under addElement, finalize and clear.    *)
(* sLast names the call that ran last, whether it succeeded, and whether   *)
(* finalize() has run since the surface was made.                          *)

InitSurface ==
  /\ \E dim \in {3, 4} : surface = ElementSurface(dim)
  /\ sLast = [op |-> "ElementSurface", ok |-> TRUE, sealed |-> FALSE]
  /\ CodecIdle
  /\ ResIdle
  /\ ProjectIdle
  /\ ToolIdle
  /\ DialogIdle

NotSurface == UNCHANGED <<codecVars, resVars, projectVars, toolVars, dialogVars>>

AddElement ==
  \E verts \in Elements(surface.dim) :
    /\ surface.finalized \/ surface.count < MaxElements
    /\ LET R == addElement(surface, verts)
       IN /\ surface' = R.s
          /\ sLast' = [sLast EXCEPT !.op = "addElement", !.ok = R.ok]
    /\ NotSurface

AddElementNormal ==
  \E verts \in Elements(surface.dim), normal \in Normals :
    /\ surface.finalized \/ surface.count < MaxElements
    /\ LET R == addElementNormal(surface, verts, normal)
       IN /\ surface' = R.s
          /\ sLast' = [sLast EXCEPT !.op = "addElement", !.ok = R.ok]
    /\ NotSurface

Finalize ==
  /\ surface' = finalize(surface)
  /\ sLast' = [op |-> "finalize", ok |-> TRUE, sealed |-> TRUE]
  /\ NotSurface

Clear ==
  /\ surface' = clear(surface)
  /\ sLast' = [sLast EXCEPT !.op = "clear", !.ok = TRUE]
  /\ NotSurface

NextSurface == AddElement \/ AddElementNormal \/ Finalize \/ Clear

SpecSurface == InitSurface /\ [][NextSurface]_vars

\* C10: addElement on a finalized surface fails and adds no geometry; clear
\* leaves the surface empty and not finalized; on a surface that is not
\* finalized addElement succeeds and adds one element.
C10_SealedUntilCleared ==
  [][/\ (sLast'.op = "addElement" /\ surface.finalized) =>
          /\ ~sLast'.ok
          /\ surface' = surface
     /\ sLast'.op = "clear" =>
          /\ ~surface'.finalized
          /\ surface'.count = 0
          /\ surface'.vertices = <<>> /\ surface'.normals = <<>>
          /\ surface'.bounds = Rectangle3D0
     /\ (sLast'.op = "addElement" /\ ~surface.finalized) =>
          /\ sLast'.ok
          /\ surface'.count = surface.count + 1
          /\ Len(surface'.vertices) = Len(surface.vertices) + 3 * surface.dim]_vars

\* addElement has succeeded on a surface that was finalized and then cleared
C10_AddedAfterClear ==
  /\ sLast.op = "addElement"
  /\ sLast.ok
  /\ sLast.sealed
  /\ surface.count = 1

----------------------------------------------------------------------------
(* A Tool: setters, getSweep, and the XML and JSON forms                   *)

\* the doubles passed to the setters
LengthInputs == {Fraction(n, 1) : n \in 1..MaxToolMM}
RadiusInputs == {Fraction(n, 2) : n \in 1..MaxToolMM}
SnubInputs == {Zero, Fraction(1, 16000000), Fraction(1, 4)}

\* the attributes of the <tool> elements read: with and without a units and
\* a shape token, which parse or do not, with and without each of the
\* numbers, which are fixed
NumberAttrs ==
  {{}, {"length"}, {"radius"}, {"diameter", "snub_diameter"},
   {"length", "radius"}, {"length", "diameter"},
   {"length", "radius", "diameter", "snub_diameter"}}

XMLInputs ==
  {Attributes(tokens \cup numbers, u, sh,
              Fraction(1, 1), Fraction(1, 16), Fraction(2, 1), Fraction(1, 4)) :
     tokens \in SUBSET {"units", "shape"}, numbers \in NumberAttrs,
     u \in {"INCH", "BOGUS"}, sh \in {"SNUBNOSE", "BOGUS"}}

InitTool ==
  /\ \E u \in ToolUnits :
       /\ tool = Tool(u)
       /\ tLast = TOp("Tool", u, <<>>)
  /\ CodecIdle
  /\ ResIdle
  /\ ProjectIdle
  /\ SurfaceIdle
  /\ DialogIdle

NotTool == UNCHANGED <<codecVars, resVars, projectVars, surfaceVars, dialogVars>>

\* Tool::setUnits: the stored lengths are not rescaled
ToolSetUnits ==
  \E u \in ToolUnits :
    /\ tool' = [tool EXCEPT !.units = u]
    /\ tLast' = TOp("setUnits", u, <<>>)
    /\ NotTool

ToolSetShape ==
  \E sh \in ToolShapes \cup {TS_OTHER} :
    /\ tool' = [tool EXCEPT !.shape = sh]
    /\ tLast' = TOp("setShape", sh, <<>>)
    /\ NotTool

ToolSetLength ==
  \E x \in LengthInputs :
    /\ tool' = [tool EXCEPT !.length = x]
    /\ tLast' = TOp("setLength", x, <<>>)
    /\ NotTool

ToolSetRadius ==
  \E x \in RadiusInputs :
    /\ tool' = [tool EXCEPT !.radius = x]
    /\ tLast' = TOp("setRadius", x, <<>>)
    /\ NotTool

ToolSetSnubDiameter ==
  \E x \in SnubInputs :
    /\ tool' = [tool EXCEPT !.snubDiameter = x]
    /\ tLast' = TOp("setSnubDiameter", x, <<>>)
    /\ NotTool

GetSweep ==
  /\ tLast' = TOp("getSweep", <<>>, getSweep(tool))
  /\ UNCHANGED tool
  /\ NotTool

WriteXML ==
  /\ tLast' = TOp("writeXML", <<>>, writeXML(tool))
  /\ UNCHANGED tool
  /\ NotTool

WriteJSON ==
  /\ tLast' = TOp("writeJSON", <<>>, writeJSON(tool))
  /\ UNCHANGED tool
  /\ NotTool

\* the element just written is read into a freshly constructed Tool
ReadBackXML ==
  /\ tLast.op = "writeXML"
  /\ \E u \in ToolUnits :
       tLast' = TOp("readBackXML", tLast.out, readXML(Tool(u), tLast.out))
  /\ UNCHANGED tool
  /\ NotTool

\* the dict just written is read into a freshly constructed Tool
ReadBackJSON ==
  /\ tLast.op = "writeJSON"
  /\ \E u \in ToolUnits :
       tLast' = TOp("readBackJSON", tLast.out, readJSON(Tool(u), tLast.out))
  /\ UNCHANGED tool
  /\ NotTool

\* attributes are read into the tool
ReadXML ==
  \E attrs \in XMLInputs :
    LET r == readXML(tool, attrs)
    IN /\ tool' = r.tool
       /\ tLast' = TOp("readXML", attrs, [threw |-> r.threw])
       /\ NotTool

NextTool ==
  \/ ToolSetUnits
  \/ ToolSetShape
  \/ ToolSetLength
  \/ ToolSetRadius
  \/ ToolSetSnubDiameter
  \/ GetSweep
  \/ WriteXML
  \/ WriteJSON
  \/ ReadBackXML
  \/ ReadBackJSON
  \/ ReadXML

SpecTool == InitTool /\ [][NextTool]_vars

\* C11: for both unit systems and each of the five shapes, a Tool written
\* and read back into a freshly constructed Tool has the same radius, length
\* and snub diameter, in the XML form and in the JSON form.
C11_RoundTrip ==
  (tLast.op \in {"readBackXML", "readBackJSON"} /\ tool.shape \in ToolShapes)
    => /\ ~tLast.out.threw
       /\ tLast.out.tool.radius = tool.radius
       /\ tLast.out.tool.length = tool.length
       /\ tLast.out.tool.snubDiameter = tool.snubDiameter

LessEq(x, y) == ~Less(y, x)

\* C12: getSweep gives conic(length, radius, radius) for a cylindrical tool,
\* conic(length, radius, 0) for a conical one, for a ballnose the composite
\* of spheroid(radius, 2 radius) at offset 0 followed by
\* conic(length, radius, radius) at offset radius, with offsets that do not
\* decrease, spheroid(radius, length) for a spheroidal one,
\* conic(length, radius, snubDiameter / 2) for a snubnose; for any other
\* shape it throws and returns no sweep.
C12_SweepOfShape ==
  tLast.op = "getSweep" =>
    LET sw == tLast.out.sweep
        l == tool.length
        r == tool.radius
    IN /\ tLast.out.threw = (tool.shape \notin ToolShapes)
       /\ tLast.out.threw => sw = NoSweep
       /\ tool.shape = "TS_CYLINDRICAL" =>
            sw = [kind |-> "conic", length |-> l, radius1 |-> r, radius2 |-> r]
       /\ tool.shape = "TS_CONICAL" =>
            sw = [kind |-> "conic", length |-> l, radius1 |-> r, radius2 |-> Zero]
       /\ tool.shape = "TS_BALLNOSE" =>
            /\ sw.kind = "composite"
            /\ Len(sw.children) = 2
            /\ sw.children[1] =
                 [sweep |-> [kind |-> "spheroid", radius |-> r,
                             length |-> Times(r, 2, 1)],
                  offset |-> Zero]
            /\ sw.children[2] =
                 [sweep |-> [kind |-> "conic", length |-> l, radius1 |-> r,
                             radius2 |-> r],
                  offset |-> r]
            /\ LessEq(sw.children[1].offset, sw.children[2].offset)
       /\ tool.shape = "TS_SPHEROID" =>
            sw = [kind |-> "spheroid", radius |-> r, length |-> l]
       /\ tool.shape = "TS_SNUBNOSE" =>
            sw = [kind |-> "conic", length |-> l, radius1 |-> r,
                  radius2 |-> Times(tool.snubDiameter, 1, 2)]

\* getSweep has returned the composite of a ballnose tool
C12_BallnoseSwept ==
  /\ tLast.op = "getSweep"
  /\ tool.shape = "TS_BALLNOSE"
  /\ ~tLast.out.threw
  /\ tLast.out.sweep.kind = "composite"
  /\ Len(tLast.out.sweep.children) = 2

\* C13: Tool::read of XML attributes throws whenever length is absent or
\* radius and diameter are both absent; a units or shape token that does not
\* parse is caught and ignored: the tool keeps its units or shape, and the
\* remaining attributes are still read.
C13_AsymmetricFailures ==
  [][tLast'.op = "readXML" =>
       LET a == tLast'.arg
           threw == tLast'.out.threw
           badUnits == "units" \in a.has /\ UnitsParse(a.units) = ParseError
           badShape == "shape" \in a.has /\ ShapeParse(a.shape) = ParseError
           scaled(x) == IF tool'.units = "inch" THEN Times(x, INCH_NUM, INCH_DEN) ELSE x
       IN /\ threw = ("length" \notin a.has
                        \/ ("radius" \notin a.has /\ "diameter" \notin a.has))
          /\ badUnits => tool'.units = tool.units
          /\ badShape => tool'.shape = tool.shape
          /\ ("units" \in a.has /\ ~badUnits) => tool'.units = UnitsParse(a.units)
          /\ ("shape" \in a.has /\ ~badShape) => tool'.shape = ShapeParse(a.shape)
          /\ ~threw =>
               /\ tool'.length = scaled(a.length)
               /\ tool'.radius = IF "radius" \in a.has THEN scaled(a.radius)
                                  ELSE scaled(Times(a.diameter, 1, 2))
               /\ tool'.snubDiameter = IF "snub_diameter" \in a.has
                                        THEN scaled(a.snub_diameter)
                                        ELSE tool.snubDiameter]_vars

\* attributes with a units and a shape token that do not parse have been
\* read into an imperial ballnose tool: it is still one, with the new numbers
C13_BadTokensIgnored ==
  /\ tLast.op = "readXML"
  /\ {"units", "shape", "length", "radius"} \subseteq tLast.arg.has
  /\ UnitsParse(tLast.arg.units) = ParseError
  /\ ShapeParse(tLast.arg.shape) = ParseError
  /\ ~tLast.out.threw
  /\ tool.units = "inch"
  /\ tool.shape = "TS_BALLNOSE"
  /\ tool.length = Times(tLast.arg.length, INCH_NUM, INCH_DEN)
  /\ tool.radius = Times(tLast.arg.radius, INCH_NUM, INCH_DEN)

----------------------------------------------------------------------------
(* A SettingsDialog over a Project                                         *)

InitDialog ==
  /\ InitProject
  /\ \E spin \in ResolutionInputs, combo \in ResolutionModes :
       dialog = SettingsDialog(spin, combo)
  /\ dStack = <<>>
  /\ dLast = DOp("SettingsDialog", <<>>)
  /\ CodecIdle
  /\ ResIdle
  /\ SurfaceIdle
  /\ ToolIdle

NotDialog == UNCHANGED <<codecVars, resVars, surfaceVars, toolVars>>

Top == dStack[1]

At(h, pc) == dStack # <<>> /\ Top.h = h /\ Top.pc = pc

\* the stack after the call on top of it has moved to pc, and the slot of a
\* signal, if one was emitted, has been called
Called(pc, emit, slot, arg) ==
  (IF emit THEN <<Frame(slot, "entry", arg)>> ELSE <<>>)
    \o <<[Top EXCEPT !.pc = pc]>> \o Tail(dStack)

\* the project changes while no dialog is open
ProjectSetWorkpieceBounds ==
  /\ dStack = <<>>
  /\ \E bounds \in {Box(0, 0, 0 - 2, 2, 2, 0)} :
       /\ project' = setWorkpieceBounds(project, bounds)
       /\ lastOp' = Op("setWorkpieceBounds", bounds, [changed |-> project' # project])
  /\ UNCHANGED dialogVars
  /\ NotDialog

\* SettingsDialog::exec up to the first widget call
Exec ==
  /\ dStack = <<>>
  /\ dialog' = [dialog EXCEPT !.bounds = getWorkpieceBounds(project)]
  /\ dStack' = <<Frame("exec", "setValue", <<>>)>>
  /\ dLast' = DOp("exec", <<>>)
  /\ UNCHANGED projectVars
  /\ NotDialog

\* exec: resolutionDoubleSpinBox->setValue(project.getResolution())
ExecSetValue ==
  /\ At("exec", "setValue")
  /\ LET r == setValue(dialog, getResolution(project))
     IN /\ dialog' = r.d
        /\ dStack' = Called("setCurrentIndex", r.emit, "spin", r.d.spin)
  /\ UNCHANGED <<dLast, projectVars>>
  /\ NotDialog

\* exec: resolutionComboBox->setCurrentIndex(project.getResolutionMode()),
\* the units combo box, and QDialog::exec opening the dialog
ExecSetCurrentIndex ==
  /\ At("exec", "setCurrentIndex")
  /\ LET r == setCurrentIndex(dialog, getResolutionMode(project))
     IN /\ dialog' = [r.d EXCEPT !.units = getUnits(project)]
        /\ dStack' = Called("open", r.emit, "combo", r.d.combo)
  /\ UNCHANGED <<dLast, projectVars>>
  /\ NotDialog

\* the user selects a mode in the combo box of the open dialog
UserSelectsMode ==
  /\ At("exec", "open")
  /\ \E index \in ResolutionModes :
       LET r == setCurrentIndex(dialog, index)
       IN /\ r.emit
          /\ dialog' = r.d
          /\ dStack' = Called("open", TRUE, "combo", index)
          /\ dLast' = DOp("select", index)
  /\ UNCHANGED projectVars
  /\ NotDialog

\* the user edits the value of the spin box of the open dialog
UserEditsValue ==
  /\ At("exec", "open")
  /\ \E value \in ResolutionInputs :
       LET r == setValue(dialog, value)
       IN /\ r.emit
          /\ dialog' = r.d
          /\ dStack' = Called("open", TRUE, "spin", value)
          /\ dLast' = DOp("edit", value)
  /\ UNCHANGED projectVars
  /\ NotDialog

ComboHandlerEntry ==
  /\ At("combo", "entry")
  /\ LET r == on_resolutionComboBox_currentIndexChanged(dialog, Top.arg)
     IN /\ dialog' = r.d
        /\ dStack' = IF r.returned THEN Tail(dStack)
                     ELSE Called("after", r.emit, "spin", r.d.spin)
  /\ UNCHANGED <<dLast, projectVars>>
  /\ NotDialog

\* changing = false, and the slot returns
ComboHandlerReturn ==
  /\ At("combo", "after")
  /\ dialog' = [dialog EXCEPT !.changing = FALSE]
  /\ dStack' = Tail(dStack)
  /\ UNCHANGED <<dLast, projectVars>>
  /\ NotDialog

SpinHandlerEntry ==
  /\ At("spin", "entry")
  /\ LET r == on_resolutionDoubleSpinBox_valueChanged(dialog, Top.arg)
     IN /\ dialog' = r.d
        /\ dStack' = IF r.returned THEN Tail(dStack)
                     ELSE Called("after", r.emit, "combo", r.d.combo)
  /\ UNCHANGED <<dLast, projectVars>>
  /\ NotDialog

\* changing = false, and the slot returns
SpinHandlerReturn ==
  /\ At("spin", "after")
  /\ dialog' = [dialog EXCEPT !.changing = FALSE]
  /\ dStack' = Tail(dStack)
  /\ UNCHANGED <<dLast, projectVars>>
  /\ NotDialog

\* the dialog is rejected: exec returns false
Reject ==
  /\ At("exec", "open")
  /\ dStack' = <<>>
  /\ dLast' = DOp("reject", <<>>)
  /\ UNCHANGED <<dialog, projectVars>>
  /\ NotDialog

\* the dialog is accepted: exec stores the resolution, the mode and the units
\* in the project (the render mode and the view flags are not part of the
\* model)
Accept ==
  /\ At("exec", "open")
  /\ project' = setUnits(setResolutionMode(setResolution(project, dialog.spin),
                                           dialog.combo),
                         dialog.units)
  /\ lastOp' = Op("exec", <<>>, [changed |-> project' # project])
  /\ dStack' = <<>>
  /\ dLast' = DOp("accept", <<>>)
  /\ UNCHANGED dialog
  /\ NotDialog

NextDialog ==
  \/ ProjectSetWorkpieceBounds
  \/ Exec
  \/ ExecSetValue
  \/ ExecSetCurrentIndex
  \/ UserSelectsMode
  \/ UserEditsValue
  \/ ComboHandlerEntry
  \/ ComboHandlerReturn
  \/ SpinHandlerEntry
  \/ SpinHandlerReturn
  \/ Reject
  \/ Accept

SpecDialog == InitDialog /\ [][NextDialog]_vars

\* no slot of the resolution widgets is on the stack
NoHandlerRuns == \A i \in 1..Len(dStack) : dStack[i].h = "exec"

\* the dialog is open and waits for the user
DialogOpen == dStack = <<Frame("exec", "open", <<>>)>>

\* C14: changing keeps the two resolution slots from triggering each other:
\* after the user selects a mode the spin box holds
\* computeResolution(mode, bounds) and the combo box still shows the mode;
\* after the user edits the spin box the combo box shows manual and the spin
\* box holds the value entered; changing is false whenever no slot runs.
C14_ChangingGuardsSlots ==
  /\ NoHandlerRuns => ~dialog.changing
  /\ (DialogOpen /\ dLast.op = "select") =>
       /\ dialog.combo = dLast.arg
       /\ dialog.spin = computeResolution(dLast.arg, dialog.bounds)
  /\ (DialogOpen /\ dLast.op = "edit") =>
       /\ dialog.combo = MANUAL
       /\ dialog.spin = dLast.arg

\* the user has selected a mode other than manual, the spin box has changed
\* to the resolution computed for it, and the slots have returned
C14_ModeSelected ==
  /\ DialogOpen
  /\ dLast.op = "select"
  /\ dLast.arg # MANUAL
  /\ dialog.combo = dLast.arg
  /\ dialog.spin = computeResolution(dLast.arg, dialog.bounds)
  /\ dialog.spin \notin ResolutionInputs
  /\ ~dialog.changing

====
